---- MODULE Spec2Model ----
(***************************************************************************)
(* Model of package audio (jadrezz/audio): the 44-byte WAVE PCM header,    *)
(* its little-endian codec, PCMAudio.Validate, PCMAudio.Merge,             *)
(* checkRequiredParams / chooseMode and (from the specification) Concat.   *)
(*                                                                         *)
(* A uint32 is the pair <<hi, lo>> of its 16-bit halves, so that           *)
(* arithmetic wraps at 2^32 exactly as in Go without leaving the integer   *)
(* range of the model checker.  A uint16 is a natural number below 2^16.   *)
(* A byte is a natural number below 256; a [4]byte tag is a 4-tuple.       *)
(***************************************************************************)
EXTENDS Integers, Sequences, FiniteSets, TLC

\* ------------------------------------------------------------------ bounds
\* Largest payload (bytes after the header) of an input source.
MaxBytes == 4

\* ------------------------------------------------------- fixed-width words
W16 == 65536

U32(n) == <<n \div W16, n % W16>>

\* uint32 addition, wrapping at 2^32
Add32(a, b) ==
    LET lo == a[2] + b[2]
        hi == a[1] + b[1] + (lo \div W16)
    IN  <<hi % W16, lo % W16>>

\* uint32 multiplication by a uint16 promoted to uint32, wrapping at 2^32
\* (k is split in bytes so that no intermediate product exceeds 2^25)
Mul32(a, k) ==
    LET kl == k % 256
        kh == k \div 256
        p  == a[2] * kl
        q  == a[2] * kh
        L  == p + 256 * (q % 256)
        carry == (L \div W16) + (q \div 256)
        hi == a[1] * kl + 256 * ((a[1] * kh) % 256) + carry
    IN  <<hi % W16, L % W16>>

\* ------------------------------------------------------- package constants
chunkID       == <<82, 73, 70, 70>>       \* "RIFF"
format        == <<87, 65, 86, 69>>       \* "WAVE"
subChunkID    == <<102, 109, 116, 32>>    \* "fmt "
subChunk1Size == U32(16)
audioFormat   == 1
subChunk2ID   == <<100, 97, 116, 97>>     \* "data"
mono          == 1
stereo        == 2

\* size in bytes of the encoded headers struct; Merge seeks to this offset
HeaderSize == 44

\* ------------------------------------------------------------ header codec
\* The zero value of the headers struct (var p PCMAudio).
ZeroHeaders ==
    [ChunkID |-> <<0, 0, 0, 0>>, ChunkSize |-> U32(0), Format |-> <<0, 0, 0, 0>>,
     SubChunk1ID |-> <<0, 0, 0, 0>>, SubChunk1Size |-> U32(0), AudioFormat |-> 0,
     NumChannels |-> 0, SampleRate |-> U32(0), ByteRate |-> U32(0),
     BlockAlign |-> 0, BitsPerSample |-> 0, SubChunk2ID |-> <<0, 0, 0, 0>>,
     SubChunk2Size |-> U32(0)]

\* Variant of LE16: the most significant byte first (binary.BigEndian).
LE16BigEndian(x) == <<x \div 256, x % 256>>


LE16(x) == <<x % 256, x \div 256>>
LE32(u) == LE16(u[2]) \o LE16(u[1])

\* binary.Write(output, binary.LittleEndian, h): the fields in struct order
Encode(h) ==
    h.ChunkID \o LE32(h.ChunkSize) \o h.Format \o h.SubChunk1ID
      \o LE32(h.SubChunk1Size) \o LE16(h.AudioFormat) \o LE16(h.NumChannels)
      \o LE32(h.SampleRate) \o LE32(h.ByteRate) \o LE16(h.BlockAlign)
      \o LE16(h.BitsPerSample) \o h.SubChunk2ID \o LE32(h.SubChunk2Size)

Rd16(b, i) == b[i] + 256 * b[i + 1]
Rd32(b, i) == <<Rd16(b, i + 2), Rd16(b, i)>>
Rd4(b, i)  == <<b[i], b[i + 1], b[i + 2], b[i + 3]>>

\* binary.Read(data, binary.LittleEndian, &p.headers) on 44 bytes b
Decode(b) ==
    [ChunkID |-> Rd4(b, 1), ChunkSize |-> Rd32(b, 5), Format |-> Rd4(b, 9),
     SubChunk1ID |-> Rd4(b, 13), SubChunk1Size |-> Rd32(b, 17),
     AudioFormat |-> Rd16(b, 21), NumChannels |-> Rd16(b, 23),
     SampleRate |-> Rd32(b, 25), ByteRate |-> Rd32(b, 29),
     BlockAlign |-> Rd16(b, 33), BitsPerSample |-> Rd16(b, 35),
     SubChunk2ID |-> Rd4(b, 37), SubChunk2Size |-> Rd32(b, 41)]

\* ------------------------------------------------------------------- state
Sources == {1, 2}        \* the caller's byte sources (io.ReadSeeker)
Handles == {1, 2}        \* *PCMAudio values; handle h is built from source h

VARIABLES
    src,       \* src[s]: the bytes of source s (header, then payload)
    pos,       \* pos[s]: read offset of source s
    handles,   \* handles[h]: the PCMAudio struct, made = FALSE until built
    sink,      \* bytes the last call wrote to its output io.Writer
    pc,        \* position inside Merge: "idle" between calls
    call,      \* operands of the last Merge or Concat, and whether their
               \* sources stood at end-of-stream when it was called:
               \* [left, right, atEnd]
    trace,     \* I/O operations the last call performed, in order
    ret,       \* what the last call returned: [op, left, right, err]
    env        \* the caller's habits, fixed during a run:
               \*   alias: one handle may be passed as both operands
               \*   reader: "file" for sources that are files, "any" for
               \*           every source the io.Reader contract admits

vars == <<src, pos, handles, sink, pc, call, trace, ret, env>>

\* Operand pairs the caller may pass.
Operands(l, r) == env.alias \/ l # r

NoCall == [left |-> 0, right |-> 0, atEnd |-> <<FALSE, FALSE>>]

NoError == "nil"

ZeroPCMAudio == [made |-> FALSE, headers |-> ZeroHeaders, data |-> 0, valid |-> FALSE]

\* ------------------------------------------------------------ byte sources
\* The sources are files (os.Open in the README): Read returns the bytes
\* that are left, at most n of them, and (0, io.EOF) once none is left; a
\* zero-length read returns (0, nil).
Min(a, b) == IF a <= b THEN a ELSE b

Avail(s, at) == IF Len(src[s]) > at THEN Len(src[s]) - at ELSE 0

\* The cursor of source s has nothing left to read.
AtEnd(s) == pos[s] >= Len(src[s])

\* Read of n bytes from source s whose offset is at: (n, err == io.EOF, bytes)
Read(s, at, n) ==
    LET k == Min(n, Avail(s, at))
    IN  [n    |-> k,
         eof  |-> n > 0 /\ k = 0,
         data |-> SubSeq(src[s], at + 1, at + k)]

\* Every result the io.Reader contract allows for that Read when the source
\* still holds bytes: any k >= 1 of them, and io.EOF together with the last.
AnyRead(s, at, n) ==
    LET m == Min(n, Avail(s, at))
    IN  { [n |-> k, eof |-> FALSE, data |-> SubSeq(src[s], at + 1, at + k)] :
            k \in 1..m }
        \cup { [n |-> k, eof |-> TRUE, data |-> SubSeq(src[s], at + 1, at + k)] :
                 k \in {j \in 1..m : at + j = Len(src[s])} }

\* The results of p.data.Read(buf) with len(buf) = n (audio.go 130, 135):
\* an os.File fills the buffer as far as the file goes; any other reader
\* may return less.
Reads(s, at, n) ==
    IF env.reader = "file"
    THEN {Read(s, at, n)}
    ELSE {Read(s, at, n)} \cup AnyRead(s, at, n)

\* make([]byte, sampleSize): a frame of zero bytes
Zeros(n) == [i \in 1..n |-> 0]

\* ------------------------------------------------------------------ inputs
\* Payload bytes of source s: all non-zero and different between sources.
Payload(s, n) == [i \in 1..n |-> 16 * s + i]

\* A header with the canonical tags; the derived fields are consistent with
\* the others when ok, and arbitrary otherwise.
WavHeaders(nc, rate, bits, size, ok) ==
    LET align == nc * (bits \div 8)
    IN  [ChunkID |-> chunkID,
         ChunkSize |-> IF ok THEN Add32(U32(36), size) ELSE U32(7),
         Format |-> format, SubChunk1ID |-> subChunkID,
         SubChunk1Size |-> subChunk1Size, AudioFormat |-> audioFormat,
         NumChannels |-> nc, SampleRate |-> rate,
         ByteRate |-> IF ok THEN Mul32(rate, align) ELSE U32(1),
         BlockAlign |-> IF ok THEN align ELSE 3,
         BitsPerSample |-> bits, SubChunk2ID |-> subChunk2ID,
         SubChunk2Size |-> size]

Rate8k  == U32(8000)
RateBig == <<32768, 8000>>            \* 2^31 + 8000: byteRate wraps
SizeBig == <<65535, 65534>>           \* 2^32 - 2: the size sum wraps

RatePairs == {<<Rate8k, Rate8k>>, <<RateBig, RateBig>>, <<Rate8k, RateBig>>}
BitsPairs == {<<8, 8>>, <<16, 16>>, <<8, 16>>}
OddBits   == {<<12, 12>>, <<4, 4>>}   \* not a multiple of 8; less than 8
ChanPairs == {<<mono, mono>>, <<stereo, stereo>>, <<mono, stereo>>}

\* Two well-tagged files with payloads of n1 and n2 bytes.  File 2 is
\* consistent; file 1 is too unless sloppy, and then it declares a wrong
\* size and wrong derived fields.
FilePair(r, b, c, sloppy, n1, n2) ==
    << Encode(WavHeaders(c[1], r[1], b[1],
                         IF sloppy THEN SizeBig ELSE U32(n1), ~sloppy))
         \o Payload(1, n1),
       Encode(WavHeaders(c[2], r[2], b[2], U32(n2), TRUE)) \o Payload(2, n2) >>

\* Files of every length, equal or different in rate, bit depth and
\* channels, and mono files of odd bit depths.
MergeInputs ==
    { FilePair(r, b, c, sloppy, n1, n2) :
        <<r, b, c, sloppy, n1, n2>> \in
            RatePairs \X BitsPairs \X ChanPairs \X BOOLEAN
              \X (0..MaxBytes) \X (0..MaxBytes) }
    \cup
    { FilePair(<<Rate8k, Rate8k>>, b, <<mono, mono>>, sloppy, n1, n2) :
        <<b, sloppy, n1, n2>> \in
            OddBits \X BOOLEAN \X (0..MaxBytes) \X (0..MaxBytes) }

\* A tag that differs from the canonical one in its last byte.
Bad(tag) == [tag EXCEPT ![4] = 88]

\* File 1 with every combination of right and wrong values in the six
\* fields Validate reads, over two settings of its other fields; file 2
\* well-formed.
TagInputs ==
    { << Encode([base EXCEPT
                    !.ChunkID = t[1], !.Format = t[2], !.SubChunk1ID = t[3],
                    !.SubChunk1Size = t[4], !.AudioFormat = t[5],
                    !.SubChunk2ID = t[6]]) \o Payload(1, 2),
         Encode(WavHeaders(mono, Rate8k, 16, U32(2), TRUE)) \o Payload(2, 2) >> :
        <<base, t>> \in
            {WavHeaders(mono, Rate8k, 16, U32(2), TRUE),
             WavHeaders(stereo, RateBig, 8, SizeBig, FALSE)}
            \X ({chunkID, Bad(chunkID)} \X {format, Bad(format)}
                \X {subChunkID, Bad(subChunkID)} \X {subChunk1Size, U32(18)}
                \X {audioFormat, 2} \X {subChunk2ID, Bad(subChunk2ID)}) }

\* File 1 cut short inside its header; file 2 well-formed.
ShortInputs ==
    { << SubSeq(Encode(WavHeaders(mono, Rate8k, 16, U32(0), TRUE)), 1, k),
         Encode(WavHeaders(mono, Rate8k, 16, U32(2), TRUE)) \o Payload(2, 2) >> :
        k \in {0, 1, 43} }

\* File 1 with a 44-byte header of arbitrary bytes, byte i being
\* (a * i + c) mod 256; file 2 well-formed.
GarbageInputs ==
    { << [i \in 1..HeaderSize |-> (g[1] * i + g[2]) % 256] \o Payload(1, 2),
         Encode(WavHeaders(mono, Rate8k, 16, U32(2), TRUE)) \o Payload(2, 2) >> :
        g \in {<<0, 0>>, <<0, 255>>, <<1, 0>>, <<7, 3>>, <<37, 200>>, <<255, 1>>} }


Inputs == MergeInputs \cup TagInputs \cup ShortInputs \cup GarbageInputs

InitWith(inputs, e) ==
    /\ src \in inputs
    /\ env = e
    /\ pos = [s \in Sources |-> 0]
    /\ handles = [h \in Handles |-> ZeroPCMAudio]
    /\ sink = <<>>
    /\ pc = "idle"
    /\ call = NoCall
    /\ trace = <<>>
    /\ ret = [op |-> "none", left |-> 0, right |-> 0, err |-> NoError]

\* The caller passes two different handles to Merge and Concat.
Init == InitWith(Inputs, [alias |-> FALSE, reader |-> "file"])

\* --------------------------------------------------------------- operations
Return(op, l, r, e) == [op |-> op, left |-> l, right |-> r, err |-> e]

\* The errors of NewPCMAudio: the message ends with the error binary.Read
\* returned, which is the source's own error, or io.EOF when not one byte
\* could be read, or io.ErrUnexpectedEOF when the source ended early.
ErrSource == "could not read and parse the recieved data: read failed"
ErrEOF    == "could not read and parse the recieved data: EOF"
ErrShort  == "could not read and parse the recieved data: unexpected EOF"

\* Variant of NewPCMAudio: one Read instead of io.ReadFull, so that a
\* source that ends early is no error and the missing bytes stay zero.
NewPCMAudioSingleRead(s) ==
    /\ pc = "idle"
    /\ ~handles[s].made
    /\ \E fail \in BOOLEAN :
         LET got == Read(s, pos[s], HeaderSize)
         IN  IF fail
             THEN /\ ret' = Return("NewPCMAudio", s, 0, ErrSource)
                  /\ UNCHANGED <<pos, handles>>
             ELSE /\ ret' = Return("NewPCMAudio", s, 0, NoError)
                  /\ pos' = [pos EXCEPT ![s] = @ + got.n]
                  /\ handles' = [handles EXCEPT ![s] =
                        [made |-> TRUE,
                         headers |-> Decode(got.data \o Zeros(HeaderSize - got.n)),
                         data |-> s, valid |-> FALSE]]
    /\ sink' = <<>> /\ trace' = <<>> /\ call' = NoCall
    /\ UNCHANGED <<src, pc, env>>

\* func NewPCMAudio(data io.ReadSeeker) (*PCMAudio, error)
\* binary.Read fills the 44 bytes of the struct with io.ReadFull: it fails
\* when the source errors (fail) or ends before 44 bytes were read.
NewPCMAudio(s) ==
    /\ pc = "idle"
    /\ ~handles[s].made
    /\ \E fail \in BOOLEAN :
         LET got == Read(s, pos[s], HeaderSize)
         IN  IF fail
             THEN /\ ret' = Return("NewPCMAudio", s, 0, ErrSource)
                  /\ UNCHANGED <<pos, handles>>
             ELSE IF got.n < HeaderSize
             THEN /\ ret' = Return("NewPCMAudio", s, 0,
                                   IF got.n = 0 THEN ErrEOF ELSE ErrShort)
                  /\ pos' = [pos EXCEPT ![s] = @ + got.n]
                  /\ UNCHANGED handles
             ELSE /\ ret' = Return("NewPCMAudio", s, 0, NoError)
                  /\ pos' = [pos EXCEPT ![s] = @ + got.n]
                  /\ handles' = [handles EXCEPT ![s] =
                        [made |-> TRUE, headers |-> Decode(got.data),
                         data |-> s, valid |-> FALSE]]
    /\ sink' = <<>> /\ trace' = <<>> /\ call' = NoCall
    /\ UNCHANGED <<src, pc, env>>

\* Variant of ValidateError: the data tag is examined before the PCM fields.
ValidateErrorDataFirst(p) ==
    IF p.ChunkID # chunkID THEN "RIFF header doesn't match"
    ELSE IF p.Format # format THEN "audio format doesn't match"
    ELSE IF p.SubChunk1ID # subChunkID THEN "subchunk fmt doesn't match"
    ELSE IF p.SubChunk2ID # subChunk2ID THEN "data header doesn't match"
    ELSE IF p.SubChunk1Size # subChunk1Size \/ p.AudioFormat # audioFormat
         THEN "provided data is not PCM audio"
    ELSE NoError

\* The switch of Validate: the error of the first case that applies.
ValidateError(p) ==
    IF p.ChunkID # chunkID THEN "RIFF header doesn't match"
    ELSE IF p.Format # format THEN "audio format doesn't match"
    ELSE IF p.SubChunk1ID # subChunkID THEN "subchunk fmt doesn't match"
    ELSE IF p.SubChunk1Size # subChunk1Size \/ p.AudioFormat # audioFormat
         THEN "provided data is not PCM audio"
    ELSE IF p.SubChunk2ID # subChunk2ID THEN "data header doesn't match"
    ELSE NoError

\* Variant of Validate: the flag is set before the switch is evaluated.
ValidateAlwaysMarks(h) ==
    /\ pc = "idle"
    /\ handles[h].made
    /\ ret' = Return("Validate", h, 0, ValidateError(handles[h].headers))
    /\ handles' = [handles EXCEPT ![h].valid = TRUE]
    /\ sink' = <<>> /\ trace' = <<>> /\ call' = NoCall
    /\ UNCHANGED <<src, pos, pc, env>>

\* func (p *PCMAudio) Validate() (bool, error)
Validate(h) ==
    /\ pc = "idle"
    /\ handles[h].made
    /\ LET e == ValidateError(handles[h].headers)
       IN  /\ ret' = Return("Validate", h, 0, e)
           /\ handles' = IF e = NoError
                         THEN [handles EXCEPT ![h].valid = TRUE]
                         ELSE handles
    /\ sink' = <<>> /\ trace' = <<>> /\ call' = NoCall
    /\ UNCHANGED <<src, pos, pc, env>>

\* Variant of MergeCheck: only the receiver's flag is examined.
MergeCheckLeftOnly(p, other) ==
    IF ~p.valid THEN "validate each audio file first"
    ELSE IF p.headers.SampleRate # other.headers.SampleRate
         THEN "rate of both audio files must match"
    ELSE IF p.headers.BitsPerSample # other.headers.BitsPerSample
         THEN "bits per sample of both audio files must match"
    ELSE NoError

\* Variant of MergeCheck: the bit depths are compared before the rates.
MergeCheckBitsFirst(p, other) ==
    IF ~p.valid \/ ~other.valid THEN "validate each audio file first"
    ELSE IF p.headers.BitsPerSample # other.headers.BitsPerSample
         THEN "bits per sample of both audio files must match"
    ELSE IF p.headers.SampleRate # other.headers.SampleRate
         THEN "rate of both audio files must match"
    ELSE NoError

\* The three guards at the top of Merge (audio.go 79-89).
MergeCheck(p, other) ==
    IF ~p.valid \/ ~other.valid THEN "validate each audio file first"
    ELSE IF p.headers.SampleRate # other.headers.SampleRate
         THEN "rate of both audio files must match"
    ELSE IF p.headers.BitsPerSample # other.headers.BitsPerSample
         THEN "bits per sample of both audio files must match"
    ELSE NoError

\* Variant of MergeHeaders: the byte rate is the left input's, doubled,
\* instead of being recomputed from the sample rate.
MergeHeadersDoubledRate(p, other) ==
    LET newChunkSize     == Add32(Add32(U32(36), p.SubChunk2Size), other.SubChunk2Size)
        newBlockAlign    == (stereo * (p.BitsPerSample \div 8)) % W16
        newSubChunk2Size == Add32(p.SubChunk2Size, other.SubChunk2Size)
    IN  [ChunkID |-> chunkID, ChunkSize |-> newChunkSize, Format |-> format,
         SubChunk1ID |-> subChunkID, SubChunk1Size |-> subChunk1Size,
         AudioFormat |-> audioFormat, NumChannels |-> stereo,
         SampleRate |-> p.SampleRate,
         ByteRate |-> Mul32(p.ByteRate, stereo),
         BlockAlign |-> newBlockAlign, BitsPerSample |-> p.BitsPerSample,
         SubChunk2ID |-> subChunk2ID, SubChunk2Size |-> newSubChunk2Size]

\* newHeaders of Merge (audio.go 91-109); stereo * (bits / 8) fits a uint16.
MergeHeaders(p, other) ==
    LET newChunkSize     == Add32(Add32(U32(36), p.SubChunk2Size), other.SubChunk2Size)
        newBlockAlign    == (stereo * (p.BitsPerSample \div 8)) % W16
        newSubChunk2Size == Add32(p.SubChunk2Size, other.SubChunk2Size)
    IN  [ChunkID |-> chunkID, ChunkSize |-> newChunkSize, Format |-> format,
         SubChunk1ID |-> subChunkID, SubChunk1Size |-> subChunk1Size,
         AudioFormat |-> audioFormat, NumChannels |-> stereo,
         SampleRate |-> p.SampleRate,
         ByteRate |-> Mul32(p.SampleRate, newBlockAlign),
         BlockAlign |-> newBlockAlign, BitsPerSample |-> p.BitsPerSample,
         SubChunk2ID |-> subChunk2ID, SubChunk2Size |-> newSubChunk2Size]

\* Variant of MergeCall: the new header is stored in the receiver
\* (p.headers = headers{...}) before it is written.
MergeCallOverwrites(l, r) ==
    /\ pc = "idle"
    /\ handles[l].made /\ handles[r].made
    /\ Operands(l, r)
    /\ LET e == MergeCheck(handles[l], handles[r])
           h == MergeHeaders(handles[l].headers, handles[r].headers)
       IN  IF e # NoError
           THEN /\ ret' = Return("Merge", l, r, e)
                /\ sink' = <<>>
                /\ trace' = <<>>
                /\ pc' = "idle"
                /\ UNCHANGED handles
           ELSE \E fail \in BOOLEAN :
                  /\ handles' = [handles EXCEPT ![l].headers = h]
                  /\ trace' = IF fail THEN <<"header", "fail">> ELSE <<"header">>
                  /\ IF fail
                     THEN /\ ret' = Return("Merge", l, r, "could not write headers")
                          /\ sink' = <<>>
                          /\ pc' = "idle"
                     ELSE /\ ret' = Return("Merge", l, r, "pending")
                          /\ sink' = Encode(h)
                          /\ pc' = "seekL"
    /\ call' = [left |-> l, right |-> r,
                 atEnd |-> <<AtEnd(handles[l].data), AtEnd(handles[r].data)>>]
    /\ UNCHANGED <<src, pos, env>>


\* Merge up to and including the write of the header (audio.go 78-113).
\* The caller hands in a fresh output; fail is a failing Write.
MergeCall(l, r) ==
    /\ pc = "idle"
    /\ handles[l].made /\ handles[r].made
    /\ Operands(l, r)
    /\ LET e == MergeCheck(handles[l], handles[r])
       IN  IF e # NoError
           THEN /\ ret' = Return("Merge", l, r, e)
                /\ sink' = <<>>
                /\ trace' = <<>>
                /\ pc' = "idle"
           ELSE \E fail \in BOOLEAN :
                  /\ trace' = IF fail THEN <<"header", "fail">> ELSE <<"header">>
                  /\ IF fail
                     THEN /\ ret' = Return("Merge", l, r, "could not write headers")
                          /\ sink' = <<>>
                          /\ pc' = "idle"
                     ELSE /\ ret' = Return("Merge", l, r, "pending")
                          /\ sink' = Encode(MergeHeaders(handles[l].headers,
                                                         handles[r].headers))
                          /\ pc' = "seekL"
    /\ call' = [left |-> l, right |-> r,
                 atEnd |-> <<AtEnd(handles[l].data), AtEnd(handles[r].data)>>]
    /\ UNCHANGED <<src, pos, handles, env>>

\* Variant of MergeSeekLeft: the offset is taken from the current position
\* (io.SeekCurrent) instead of the start of the source.
MergeSeekLeftFromCurrent ==
    /\ pc = "seekL"
    /\ \E fail \in BOOLEAN :
         IF fail
         THEN /\ trace' = trace \o <<"seekL", "fail">>
              /\ ret' = Return("Merge", call.left, call.right, "could not seek left")
              /\ pc' = "idle"
              /\ UNCHANGED pos
         ELSE /\ trace' = Append(trace, "seekL")
              /\ pos' = [pos EXCEPT ![handles[call.left].data] = @ + HeaderSize]
              /\ pc' = "seekR"
              /\ UNCHANGED ret
    /\ UNCHANGED <<src, handles, sink, call, env>>


\* p.data.Seek(44, io.SeekStart) (audio.go 115-118)
MergeSeekLeft ==
    /\ pc = "seekL"
    /\ \E fail \in BOOLEAN :
         IF fail
         THEN /\ trace' = trace \o <<"seekL", "fail">>
              /\ ret' = Return("Merge", call.left, call.right, "could not seek left")
              /\ pc' = "idle"
              /\ UNCHANGED pos
         ELSE /\ trace' = Append(trace, "seekL")
              /\ pos' = [pos EXCEPT ![handles[call.left].data] = HeaderSize]
              /\ pc' = "seekR"
              /\ UNCHANGED ret
    /\ UNCHANGED <<src, handles, sink, call, env>>

\* Variant of MergeSeekRight: the error of Seek is dropped and Merge goes on.
MergeSeekRightIgnoresError ==
    /\ pc = "seekR"
    /\ \E fail \in BOOLEAN :
         IF fail
         THEN /\ trace' = trace \o <<"seekR", "fail">>
              /\ UNCHANGED pos
         ELSE /\ trace' = Append(trace, "seekR")
              /\ pos' = [pos EXCEPT ![handles[call.right].data] = HeaderSize]
    /\ pc' = "loop"
    /\ UNCHANGED <<src, handles, sink, call, ret, env>>


\* other.data.Seek(44, io.SeekStart) (audio.go 120-123)
MergeSeekRight ==
    /\ pc = "seekR"
    /\ \E fail \in BOOLEAN :
         IF fail
         THEN /\ trace' = trace \o <<"seekR", "fail">>
              /\ ret' = Return("Merge", call.left, call.right, "could not seek right")
              /\ pc' = "idle"
              /\ UNCHANGED pos
         ELSE /\ trace' = Append(trace, "seekR")
              /\ pos' = [pos EXCEPT ![handles[call.right].data] = HeaderSize]
              /\ pc' = "loop"
              /\ UNCHANGED ret
    /\ UNCHANGED <<src, handles, sink, call, env>>

\* Variant of BothConsumed: only end-of-stream counts, a read of no bytes
\* without it does not.
BothConsumedOnEOF(rl, rr) == rl.eof /\ rr.eof


\* "both data are consumed" (audio.go 141)
BothConsumed(rl, rr) == (rl.eof \/ rl.n = 0) /\ (rr.eof \/ rr.n = 0)

\* Variant of Slot: the test of the read length is inverted.
SlotInverted(rd, sampleSize) ==
    IF rd.n # sampleSize THEN rd.data ELSE Zeros(sampleSize)

\* Variant of Slot: whatever was read is written, buf[:n], zeros only
\* after a read of nothing.
SlotPartial(rd, sampleSize) == IF rd.n > 0 THEN rd.data ELSE Zeros(sampleSize)

\* What is written for one side: the buffer after a full read, zeros
\* otherwise (audio.go 146-157 and 159-170).
Slot(rd, sampleSize) == IF rd.n = sampleSize THEN rd.data ELSE Zeros(sampleSize)

\* The break at the end of the loop body (audio.go 172-174).
StopAfterWrite(rl, rr) == rl.eof \/ rr.eof

MergeFaults == {"none", "readL", "readR", "writeL", "writeR"}

\* One pass of the for loop (audio.go 129-175).  fault names the I/O call
\* of this pass that fails, if any; a failing Read or Write transfers
\* nothing and is followed by "fail" in the trace.  The right side is read
\* at the offsets the left read leaves.
MergeLoop ==
    /\ pc = "loop"
    /\ \E fault \in MergeFaults :
       \E rl \in Reads(handles[call.left].data,
                       pos[handles[call.left].data],
                       handles[call.left].headers.BitsPerSample \div 8) :
         LET l   == call.left
             r   == call.right
             sL  == handles[l].data
             sR  == handles[r].data
             sampleSize == handles[l].headers.BitsPerSample \div 8
             pos1 == [pos EXCEPT ![sL] = @ + rl.n]
         IN  IF fault = "readL"
             THEN /\ ret' = Return("Merge", l, r, "error reading left")
                  /\ trace' = trace \o <<"readL", "fail">>
                  /\ pc' = "idle"
                  /\ UNCHANGED <<pos, sink>>
             ELSE IF fault = "readR"
             THEN /\ ret' = Return("Merge", l, r, "error reading right")
                  /\ trace' = trace \o <<"readL", "readR", "fail">>
                  /\ pos' = pos1
                  /\ pc' = "idle"
                  /\ UNCHANGED sink
             ELSE \E rr \in Reads(sR, pos1[sR], sampleSize) :
               LET pos2 == [pos1 EXCEPT ![sR] = @ + rr.n]
                   outL == Slot(rl, sampleSize)
                   outR == Slot(rr, sampleSize)
                   evL  == IF rl.n = sampleSize THEN "writeL" ELSE "zeroL"
                   evR  == IF rr.n = sampleSize THEN "writeR" ELSE "zeroR"
               IN  IF BothConsumed(rl, rr)
                   THEN /\ ret' = Return("Merge", l, r, NoError)
                        /\ trace' = trace \o <<"readL", "readR">>
                        /\ pos' = pos2
                        /\ pc' = "idle"
                        /\ UNCHANGED sink
                   ELSE IF fault = "writeL"
                   THEN /\ ret' = Return("Merge", l, r,
                                  IF rl.n = sampleSize
                                  THEN "error writing left sample"
                                  ELSE "error writing zero sample for left")
                        /\ trace' = trace \o <<"readL", "readR", evL, "fail">>
                        /\ pos' = pos2
                        /\ pc' = "idle"
                        /\ UNCHANGED sink
                   ELSE IF fault = "writeR"
                   THEN /\ ret' = Return("Merge", l, r,
                                  IF rr.n = sampleSize
                                  THEN "error writing right sample"
                                  ELSE "error writing zero sample for right")
                        /\ trace' = trace \o <<"readL", "readR", evL, evR, "fail">>
                        /\ pos' = pos2
                        /\ sink' = sink \o outL
                        /\ pc' = "idle"
                   ELSE /\ trace' = trace \o <<"readL", "readR", evL, evR>>
                        /\ pos' = pos2
                        /\ sink' = sink \o outL \o outR
                        /\ IF StopAfterWrite(rl, rr)
                           THEN /\ ret' = Return("Merge", l, r, NoError)
                                /\ pc' = "idle"
                           ELSE /\ UNCHANGED ret
                                /\ pc' = "loop"
    /\ UNCHANGED <<src, handles, call, env>>

\* Variant of checkRequiredParams: the channel counts are not compared.
checkRequiredParamsNoChannels(left, right) ==
    IF ~left.valid \/ ~right.valid THEN "validate each audio file first"
    ELSE IF left.headers.SampleRate # right.headers.SampleRate
         THEN "rate of both audio files must match"
    ELSE IF left.headers.BitsPerSample # right.headers.BitsPerSample
         THEN "bits per sample of both audio files must match"
    ELSE NoError

\* checkRequiredParams validates required WAVE properties (audio.go 195-213)
checkRequiredParams(left, right) ==
    IF ~left.valid \/ ~right.valid THEN "validate each audio file first"
    ELSE IF left.headers.SampleRate # right.headers.SampleRate
         THEN "rate of both audio files must match"
    ELSE IF left.headers.BitsPerSample # right.headers.BitsPerSample
         THEN "bits per sample of both audio files must match"
    ELSE IF left.headers.NumChannels # right.headers.NumChannels
         THEN "number of channels of both audio files must match"
    ELSE NoError

\* chooseMode figures out which audio mode a new audio should have
chooseMode(left, right) ==
    IF left.headers.NumChannels = mono /\ right.headers.NumChannels = mono
    THEN mono
    ELSE stereo

\* A call of checkRequiredParams on two handles.
CheckRequiredParams(l, r) ==
    /\ pc = "idle"
    /\ handles[l].made /\ handles[r].made
    /\ Operands(l, r)
    /\ ret' = Return("checkRequiredParams", l, r,
                     checkRequiredParams(handles[l], handles[r]))
    /\ sink' = <<>> /\ trace' = <<>> /\ call' = NoCall
    /\ UNCHANGED <<src, pos, handles, pc, env>>

\* Header of the concatenation, as the specification gives it: the layout
\* of the left input with the two payload sizes added up.
ConcatHeaders(p, other) ==
    LET newSubChunk2Size == Add32(p.SubChunk2Size, other.SubChunk2Size)
    IN  [ChunkID |-> chunkID, ChunkSize |-> Add32(U32(36), newSubChunk2Size),
         Format |-> format, SubChunk1ID |-> subChunkID,
         SubChunk1Size |-> subChunk1Size, AudioFormat |-> audioFormat,
         NumChannels |-> p.NumChannels, SampleRate |-> p.SampleRate,
         ByteRate |-> p.ByteRate, BlockAlign |-> p.BlockAlign,
         BitsPerSample |-> p.BitsPerSample, SubChunk2ID |-> subChunk2ID,
         SubChunk2Size |-> newSubChunk2Size]

\* Everything source s holds from the first payload byte on.
PayloadOf(s) == SubSeq(src[s], HeaderSize + 1, Len(src[s]))

\* Variant of ConcatOutput: the right payload is copied first.
ConcatOutputSwapped(l, r) ==
    Encode(ConcatHeaders(handles[l].headers, handles[r].headers))
      \o PayloadOf(handles[r].data) \o PayloadOf(handles[l].data)

\* What Concat writes: the header, the left payload, the right payload.
ConcatOutput(l, r) ==
    Encode(ConcatHeaders(handles[l].headers, handles[r].headers))
      \o PayloadOf(handles[l].data) \o PayloadOf(handles[r].data)

\* func (p *PCMAudio) Concat(other *PCMAudio, output io.Writer) error
\* Its body is not among the sources; this is the operation the
\* specification describes, guarded by checkRequiredParams, with reliable
\* I/O: header, seek both inputs to the payload, copy left, copy right.
Concat(l, r) ==
    /\ pc = "idle"
    /\ handles[l].made /\ handles[r].made
    /\ Operands(l, r)
    /\ LET e == checkRequiredParams(handles[l], handles[r])
       IN  /\ ret' = Return("Concat", l, r, e)
           /\ IF e # NoError
              THEN /\ sink' = <<>>
                   /\ trace' = <<>>
                   /\ UNCHANGED pos
              ELSE /\ sink' = ConcatOutput(l, r)
                   /\ trace' = <<"header", "seekL", "seekR", "copyL", "copyR">>
                   /\ pos' = [s \in Sources |->
                                IF s \in {handles[l].data, handles[r].data}
                                THEN IF Len(src[s]) > HeaderSize
                                     THEN Len(src[s]) ELSE HeaderSize
                                ELSE pos[s]]
    /\ call' = [left |-> l, right |-> r,
                 atEnd |-> <<AtEnd(handles[l].data), AtEnd(handles[r].data)>>]
    /\ UNCHANGED <<src, handles, pc, env>>

Next ==
    \/ \E s \in Sources : NewPCMAudio(s)
    \/ \E h \in Handles : Validate(h)
    \/ \E l, r \in Handles : MergeCall(l, r)
    \/ MergeSeekLeft
    \/ MergeSeekRight
    \/ MergeLoop
    \/ \E l, r \in Handles : CheckRequiredParams(l, r)
    \/ \E l, r \in Handles : Concat(l, r)

Spec == Init /\ [][Next]_vars

\* =================================================================== claims
\* Vocabulary of the properties below.  A Merge has returned successfully
\* when MergeOk holds; its operands are LeftH and RightH, its frame size is
\* SampleSize, and Out is what it wrote after the 44 header bytes.
MergeOk == ret.op = "Merge" /\ pc = "idle" /\ ret.err = NoError

LeftH  == handles[call.left]
RightH == handles[call.right]

SampleSize == LeftH.headers.BitsPerSample \div 8

LeftData  == PayloadOf(LeftH.data)
RightData == PayloadOf(RightH.data)

Out == SubSeq(sink, HeaderSize + 1, Len(sink))

OutHeaders == Decode(SubSeq(sink, 1, HeaderSize))

\* Frame i (from 0) of the byte sequence b, for frames of n bytes.
Frame(b, i, n) == SubSeq(b, i * n + 1, (i + 1) * n)

Max(a, b) == IF a >= b THEN a ELSE b

\* Both payloads consist of whole frames: n and m of them.
WholeFrames(n, m) ==
    /\ SampleSize >= 1
    /\ Len(LeftData) = n * SampleSize
    /\ Len(RightData) = m * SampleSize

\* Frame i of a payload of k frames, or the zero frame beyond its end.
Padded(b, i, k) == IF i < k THEN Frame(b, i, SampleSize) ELSE Zeros(SampleSize)

\* Out is exactly pairs (left i, right i) for i < k, the shorter side padded.
PaddedPairs(n, m, k) ==
    /\ Len(Out) = 2 * k * SampleSize
    /\ \A i \in 0..(k - 1) :
         /\ Frame(Out, 2 * i, SampleSize) = Padded(LeftData, i, n)
         /\ Frame(Out, 2 * i + 1, SampleSize) = Padded(RightData, i, m)

\* C1: Merge pads the shorter stream up to the longer one: with N and M
\* full frames, N # M, a successful Merge writes exactly max(N, M) pairs,
\* pair i being (left[i] or zeros, right[i] or zeros).
C1_PadsToLonger ==
    MergeOk =>
      \A n, m \in 0..MaxBytes :
        (WholeFrames(n, m) /\ n # m) => PaddedPairs(n, m, Max(n, m))

\* C2: for two payloads of exactly N frames each, a successful Merge writes
\* exactly 2N frames, frame 2i being left frame i and frame 2i+1 right
\* frame i.
C2_EqualLengthInterleave ==
    MergeOk =>
      \A n \in 0..MaxBytes :
        WholeFrames(n, n) =>
          /\ Len(Out) = 2 * n * SampleSize
          /\ \A i \in 0..(n - 1) :
               /\ Frame(Out, 2 * i, SampleSize) = Frame(LeftData, i, SampleSize)
               /\ Frame(Out, 2 * i + 1, SampleSize) = Frame(RightData, i, SampleSize)

C2_Witness ==
    /\ MergeOk
    /\ SampleSize = 2
    /\ WholeFrames(2, 2)
    /\ Out = <<17, 18, 33, 34, 19, 20, 35, 36>>

\* Each input declares as SubChunk2Size the bytes its payload really has.
SizesHonest ==
    /\ LeftH.headers.SubChunk2Size = U32(Len(LeftData))
    /\ RightH.headers.SubChunk2Size = U32(Len(RightData))

\* C3: after a successful Merge of inputs with honest sizes, the
\* SubChunk2Size of the written header, and its ChunkSize less 36, is the
\* number of payload bytes written after the header.
C3_HeaderSizeIsBytesWritten ==
    (MergeOk /\ SizesHonest) =>
      \A n, m \in 0..MaxBytes :
        WholeFrames(n, m) =>
          /\ OutHeaders.SubChunk2Size = U32(Len(Out))
          /\ OutHeaders.ChunkSize = U32(36 + Len(Out))

\* The operands of the last Merge passed its three guards.
MergeAdmitted ==
    /\ ret.op = "Merge"
    /\ LeftH.valid /\ RightH.valid
    /\ LeftH.headers.SampleRate = RightH.headers.SampleRate
    /\ LeftH.headers.BitsPerSample = RightH.headers.BitsPerSample

\* C4: for validated operands of equal rate and bit depth, whatever their
\* other fields, Merge writes (unless the write itself fails) a header with
\* NumChannels 2, SubChunk2Size the wrapped sum of the two sizes,
\* BlockAlign 2 * (bits / 8), ByteRate the wrapped rate * BlockAlign,
\* ChunkSize the wrapped 36 + SubChunk2Size, rate and bit depth of the left
\* operand and the canonical constants; that header passes Validate.
C4_MergeHeaderFields ==
    (MergeAdmitted /\ ret.err # "could not write headers") =>
      LET p     == LeftH.headers
          o     == RightH.headers
          size  == Add32(p.SubChunk2Size, o.SubChunk2Size)
          align == 2 * (p.BitsPerSample \div 8)
      IN  /\ Len(sink) >= HeaderSize
          /\ Encode(OutHeaders) = SubSeq(sink, 1, HeaderSize)
          /\ OutHeaders =
               [ChunkID |-> <<82, 73, 70, 70>>, ChunkSize |-> Add32(U32(36), size),
                Format |-> <<87, 65, 86, 69>>, SubChunk1ID |-> <<102, 109, 116, 32>>,
                SubChunk1Size |-> U32(16), AudioFormat |-> 1, NumChannels |-> 2,
                SampleRate |-> p.SampleRate, ByteRate |-> Mul32(p.SampleRate, align),
                BlockAlign |-> align, BitsPerSample |-> p.BitsPerSample,
                SubChunk2ID |-> <<100, 97, 116, 97>>, SubChunk2Size |-> size]
          /\ ValidateError(OutHeaders) = NoError

\* Stereo 16-bit operands at 2^31 + 8000 Hz, the left one declaring
\* 2^32 - 2 bytes and inconsistent derived fields, the right one 4 bytes:
\* the sums wrap to SubChunk2Size 2, ChunkSize 38 and ByteRate 32000.
C4_Witness ==
    /\ MergeOk
    /\ call.left = 1 /\ call.right = 2
    /\ LeftH.headers.NumChannels = 2 /\ RightH.headers.NumChannels = 2
    /\ LeftH.headers.SubChunk2Size = SizeBig
    /\ LeftH.headers.BlockAlign = 3
    /\ RightH.headers.SubChunk2Size = U32(4)
    /\ LeftH.headers.SampleRate = RateBig
    /\ OutHeaders.SubChunk2Size = U32(2)
    /\ OutHeaders.ChunkSize = U32(38)
    /\ OutHeaders.ByteRate = U32(32000)
    /\ OutHeaders.BlockAlign = 4

\* C5: a Merge called while either operand is unvalidated returns the
\* "validate each audio file first" error, has written nothing (not even
\* the header) and has performed no seek and no read.
C5_UnvalidatedMergeDoesNothing ==
    (ret.op = "Merge" /\ (~LeftH.valid \/ ~RightH.valid)) =>
      /\ pc = "idle"
      /\ ret.err = "validate each audio file first"
      /\ sink = <<>>
      /\ trace = <<>>

\* The left operand went through a failed Validate, the right one is
\* validated, and Merge was called.
C5_Witness ==
    /\ ret.op = "Merge"
    /\ ~LeftH.valid /\ RightH.valid
    /\ ValidateError(LeftH.headers) # NoError
    /\ ret.err = "validate each audio file first"

\* C6: the valid flag follows the validation outcomes.  Every step leaves
\* a handle just built by NewPCMAudio with valid = FALSE, a handle whose
\* Validate just returned an error with valid = FALSE and one whose
\* Validate just succeeded with valid = TRUE; and a flag turns TRUE only in
\* a step that is a successful Validate of that handle.
C6_ValidTracksValidate ==
    [][ /\ (ret'.op = "NewPCMAudio" /\ ret'.err = NoError)
            => (handles'[ret'.left].made /\ ~handles'[ret'.left].valid)
        /\ (ret'.op = "Validate" /\ ret'.err # NoError) => ~handles'[ret'.left].valid
        /\ (ret'.op = "Validate" /\ ret'.err = NoError) => handles'[ret'.left].valid
        /\ \A h \in Handles :
             (~handles[h].valid /\ handles'[h].valid)
               => (ret'.op = "Validate" /\ ret'.left = h /\ ret'.err = NoError)
      ]_vars

\* One handle validated successfully, the other after a failed Validate.
C6_Witness ==
    /\ ret.op = "Validate" /\ ret.err # NoError
    /\ ~handles[ret.left].valid
    /\ \E h \in Handles : handles[h].valid

\* The five checks of Validate, in order, and the error of each.
ValidateChecks(p) ==
    << p.ChunkID = <<82, 73, 70, 70>>,
       p.Format = <<87, 65, 86, 69>>,
       p.SubChunk1ID = <<102, 109, 116, 32>>,
       p.SubChunk1Size = U32(16) /\ p.AudioFormat = 1,
       p.SubChunk2ID = <<100, 97, 116, 97>> >>

ValidateErrors ==
    << "RIFF header doesn't match", "audio format doesn't match",
       "subchunk fmt doesn't match", "provided data is not PCM audio",
       "data header doesn't match" >>

\* The error of the lowest-numbered failing check; none if all pass.
FirstFailing(p) ==
    LET failing == {i \in 1..5 : ~ValidateChecks(p)[i]}
    IN  IF failing = {} THEN NoError
        ELSE ValidateErrors[CHOOSE i \in failing : \A j \in failing : i <= j]

\* C7: Validate returns the error of the first failing check in the order
\* RIFF, WAVE, "fmt ", (size 16 and codec 1), "data"; a wrong fmt size and
\* a wrong codec give the same error, the five errors differ from each
\* other and from success, success means all five checks pass, and nothing
\* but the six fields checked decides the result.
C7_FirstFailingCheckWins ==
    /\ Cardinality({ValidateErrors[i] : i \in 1..5} \cup {NoError}) = 6
    /\ ret.op = "Validate" =>
         /\ ret.err = FirstFailing(handles[ret.left].headers)
         /\ (ret.err = NoError) <=>
              (\A i \in 1..5 : ValidateChecks(handles[ret.left].headers)[i])
    /\ \A h \in Handles :
         handles[h].valid => \A i \in 1..5 : ValidateChecks(handles[h].headers)[i]

\* Validate reported "not PCM" for a header whose codec is wrong (its fmt
\* size is right) and whose data tag is wrong too.
C7_Witness ==
    /\ ret.op = "Validate"
    /\ ret.err = "provided data is not PCM audio"
    /\ handles[ret.left].headers.AudioFormat = 2
    /\ handles[ret.left].headers.SubChunk1Size = U32(16)
    /\ handles[ret.left].headers.SubChunk2ID # <<100, 97, 116, 97>>

RateError == "rate of both audio files must match"
BitsError == "bits per sample of both audio files must match"
ChanError == "number of channels of both audio files must match"

\* C8: a step that calls Merge on two validated handles returns the rate
\* error if the sample rates differ and otherwise the bits-per-sample
\* error if the bit depths differ, whatever the other fields; the errors
\* differ; after either rejection the sink is empty and no handle changed.
C8_MergeRejectsMismatch ==
    [][ \A l, r \in Handles :
          ( /\ pc = "idle" /\ ret'.op = "Merge" /\ call'.left = l /\ call'.right = r
            /\ handles[l].valid /\ handles[r].valid )
          =>
          LET p == handles[l].headers
              o == handles[r].headers
          IN  /\ RateError # BitsError
              /\ p.SampleRate # o.SampleRate
                   => (ret'.err = RateError /\ pc' = "idle")
              /\ (p.SampleRate = o.SampleRate /\ p.BitsPerSample # o.BitsPerSample)
                   => (ret'.err = BitsError /\ pc' = "idle")
              /\ (p.SampleRate = o.SampleRate /\ p.BitsPerSample = o.BitsPerSample)
                   => ret'.err \notin {RateError, BitsError}
              /\ ret'.err \in {RateError, BitsError}
                   => (sink' = <<>> /\ trace' = <<>> /\ pos' = pos)
              /\ handles' = handles
      ]_vars

\* Merge returned the rate error for operands that differ in rate and in
\* bit depth.
C8_Witness ==
    /\ ret.op = "Merge" /\ ret.err = RateError
    /\ LeftH.valid /\ RightH.valid
    /\ LeftH.headers.BitsPerSample # RightH.headers.BitsPerSample
    /\ sink = <<>>

\* The conditions of checkRequiredParams in order, and their errors.
ParamChecks(left, right) ==
    << left.valid /\ right.valid,
       left.headers.SampleRate = right.headers.SampleRate,
       left.headers.BitsPerSample = right.headers.BitsPerSample,
       left.headers.NumChannels = right.headers.NumChannels >>

ParamErrors == <<"validate each audio file first", RateError, BitsError, ChanError>>

FirstParamError(left, right) ==
    LET failing == {i \in 1..4 : ~ParamChecks(left, right)[i]}
    IN  IF failing = {} THEN NoError
        ELSE ParamErrors[CHOOSE i \in failing : \A j \in failing : i <= j]

\* C9: a step that calls checkRequiredParams returns ok exactly when both
\* handles are valid and agree in rate, bit depth and channel count, and
\* otherwise the error of the first failing condition in that order; the
\* four errors differ; the step changes no handle.
C9_CheckRequiredParams ==
    [][ ret'.op = "checkRequiredParams" =>
          LET left  == handles[ret'.left]
              right == handles[ret'.right]
          IN  /\ Cardinality({ParamErrors[i] : i \in 1..4} \cup {NoError}) = 5
              /\ ret'.err = FirstParamError(left, right)
              /\ (ret'.err = NoError) <=> (\A i \in 1..4 : ParamChecks(left, right)[i])
              /\ handles' = handles
      ]_vars

\* Both results occur: the channel error here, ok in C10's witness.
C9_Witness ==
    /\ ret.op = "checkRequiredParams"
    /\ ret.err = ChanError
    /\ handles[ret.left].headers.NumChannels = 2
    /\ handles[ret.right].headers.NumChannels = 1

\* Frame size of the left operand of a Concat: all channels of one sample.
ConcatFrame == LeftH.headers.NumChannels * (LeftH.headers.BitsPerSample \div 8)

\* C10: Concat of validated A (N frames) and B (M frames) of equal rate,
\* bit depth and channel count succeeds and writes the header, then
\* exactly N+M frames: A's frames in order, then B's; the header has the
\* left channel count, SubChunk2Size the sum of the two sizes and
\* ChunkSize 36 more.
C10_ConcatAppends ==
    ( /\ ret.op = "Concat"
      /\ LeftH.valid /\ RightH.valid
      /\ LeftH.headers.SampleRate = RightH.headers.SampleRate
      /\ LeftH.headers.BitsPerSample = RightH.headers.BitsPerSample
      /\ LeftH.headers.NumChannels = RightH.headers.NumChannels )
    =>
      /\ ret.err = NoError
      /\ Len(sink) >= HeaderSize
      /\ OutHeaders.NumChannels = LeftH.headers.NumChannels
      /\ OutHeaders.SubChunk2Size =
           Add32(LeftH.headers.SubChunk2Size, RightH.headers.SubChunk2Size)
      /\ OutHeaders.ChunkSize = Add32(U32(36), OutHeaders.SubChunk2Size)
      /\ \A n, m \in 0..MaxBytes :
           ( /\ ConcatFrame >= 1
             /\ Len(LeftData) = n * ConcatFrame
             /\ Len(RightData) = m * ConcatFrame )
           =>
             /\ Len(Out) = (n + m) * ConcatFrame
             /\ \A i \in 0..(n - 1) :
                  Frame(Out, i, ConcatFrame) = Frame(LeftData, i, ConcatFrame)
             /\ \A j \in 0..(m - 1) :
                  Frame(Out, n + j, ConcatFrame) = Frame(RightData, j, ConcatFrame)

\* Stereo 8-bit inputs of 1 and 2 frames concatenated.
C10_Witness ==
    /\ ret.op = "Concat" /\ ret.err = NoError
    /\ call.left = 1 /\ call.right = 2
    /\ ConcatFrame = 2
    /\ Out = <<17, 18, 33, 34, 35, 36>>
    /\ OutHeaders.NumChannels = 2
    /\ OutHeaders.SubChunk2Size = U32(6)

\* ------------------------------------------------------- the order of I/O
LeftWrites  == {"writeL", "zeroL"}
RightWrites == {"writeR", "zeroR"}

IsPayloadWrite(e) == e \in LeftWrites \cup RightWrites

\* The payload writes the last call attempted, in order.
PayloadWrites == SelectSeq(trace, IsPayloadWrite)

\* The last I/O operation of the call failed.
Failed == trace # <<>> /\ trace[Len(trace)] = "fail"

\* The payload writes that succeeded.
WritesDone ==
    IF Failed /\ IsPayloadWrite(trace[Len(trace) - 1])
    THEN Len(PayloadWrites) - 1
    ELSE Len(PayloadWrites)

HeaderWritten == Len(trace) >= 1 /\ trace[1] = "header"
                   /\ (Len(trace) >= 2 => trace[2] # "fail")

\* C11: in every execution of Merge, finished, aborted or under way, the
\* sink starts with the 44 header bytes, no payload write is attempted
\* before the header write succeeded, the payload writes alternate left
\* slot, right slot, each of exactly bitsPerSample/8 bytes, and at a
\* successful return the payload is a whole number of pairs.
C11_HeaderFirstThenPairs ==
    ret.op = "Merge" =>
      /\ sink # <<>> =>
           /\ HeaderWritten
           /\ Len(sink) >= HeaderSize
           /\ SubSeq(sink, 1, HeaderSize)
                = Encode(MergeHeaders(LeftH.headers, RightH.headers))
      /\ ~HeaderWritten => sink = <<>> /\ PayloadWrites = <<>>
      /\ \A i \in 1..Len(PayloadWrites) :
           PayloadWrites[i] \in (IF i % 2 = 1 THEN LeftWrites ELSE RightWrites)
      /\ HeaderWritten => Len(sink) = HeaderSize + WritesDone * SampleSize
      /\ MergeOk =>
           /\ WritesDone % 2 = 0
           /\ Len(Out) = (WritesDone \div 2) * (2 * SampleSize)

\* A Merge of 16-bit sources aborted by a failing write of the right slot
\* of its second pair: header, one pair and one left frame are in the sink.
C11_Witness ==
    /\ ret.op = "Merge" /\ pc = "idle"
    /\ ret.err = "error writing zero sample for right"
    /\ SampleSize = 2
    /\ Len(PayloadWrites) = 4
    /\ Len(sink) = HeaderSize + 6

\* ----------------------------------------------------------- header layout
\* The fields of the header in file order: name, offset, kind.
FieldLayout ==
    << <<"ChunkID", 0, "tag">>,        <<"ChunkSize", 4, "u32">>,
       <<"Format", 8, "tag">>,         <<"SubChunk1ID", 12, "tag">>,
       <<"SubChunk1Size", 16, "u32">>, <<"AudioFormat", 20, "u16">>,
       <<"NumChannels", 22, "u16">>,   <<"SampleRate", 24, "u32">>,
       <<"ByteRate", 28, "u32">>,      <<"BlockAlign", 32, "u16">>,
       <<"BitsPerSample", 34, "u16">>, <<"SubChunk2ID", 36, "tag">>,
       <<"SubChunk2Size", 40, "u32">> >>

Width(kind) == IF kind = "u16" THEN 2 ELSE 4

\* Byte j (from 0, least significant first) of a field value v.
FieldByte(v, kind, j) ==
    IF kind = "tag" THEN v[j + 1]
    ELSE IF kind = "u16" THEN (IF j = 0 THEN v % 256 ELSE v \div 256)
    ELSE LET half == IF j < 2 THEN v[2] ELSE v[1]
         IN  IF j % 2 = 0 THEN half % 256 ELSE half \div 256

\* b is the 44-byte little-endian image of h in the order of FieldLayout.
InLayout(h, b) ==
    /\ Len(b) = HeaderSize
    /\ \A k \in 1..Len(FieldLayout) :
         LET f == FieldLayout[k]
         IN  \A j \in 0..(Width(f[3]) - 1) :
               b[f[2] + j + 1] = FieldByte(h[f[1]], f[3], j)

\* Encoding h gives its image, and decoding the image gives h back.
RoundTrip(h) ==
    /\ InLayout(h, Encode(h))
    /\ Decode(Encode(h)) = h

\* C12: the header codec is lossless.  The header NewPCMAudio decodes from
\* the first 44 bytes of a source, whatever they are, encodes to exactly
\* those 44 bytes, laid out as FieldLayout says, and decodes back to
\* itself field by field; the 44 bytes Merge or Concat writes decode to
\* the header that was encoded.
C12_CodecRoundTrip ==
    /\ (ret.op = "NewPCMAudio" /\ ret.err = NoError) =>
           /\ Encode(handles[ret.left].headers)
                = SubSeq(src[handles[ret.left].data], 1, HeaderSize)
           /\ RoundTrip(handles[ret.left].headers)
    /\ (ret.op = "Merge" /\ pc = "seekL") =>
           /\ OutHeaders = MergeHeaders(LeftH.headers, RightH.headers)
           /\ InLayout(OutHeaders, sink)
    /\ (ret.op = "Concat" /\ ret.err = NoError) =>
           /\ OutHeaders = ConcatHeaders(LeftH.headers, RightH.headers)
           /\ InLayout(OutHeaders, SubSeq(sink, 1, HeaderSize))

\* A handle built from a header of arbitrary bytes (byte i is 7i + 3): its
\* fields are what the layout says and encode to the bytes of the source.
C12_Witness ==
    /\ ret.op = "NewPCMAudio" /\ ret.left = 1
    /\ handles[1].made
    /\ handles[1].headers.ChunkID = <<10, 17, 24, 31>>
    /\ handles[1].headers.BitsPerSample = 248 + 256 * 255
    /\ Encode(handles[1].headers) = SubSeq(src[1], 1, HeaderSize)

\* C13: NewPCMAudio returns an error and no handle when the source holds
\* fewer than 44 bytes or its read fails, and in no other case: with 44
\* bytes or more and no read failure it succeeds whatever the bytes are,
\* and the handle it returns is not valid, holds the decoded header and
\* has consumed exactly 44 bytes of its source.
C13_NewPCMAudioOutcome ==
    ret.op = "NewPCMAudio" =>
      LET s == ret.left
      IN  /\ Len(src[s]) < HeaderSize => ret.err \in {ErrEOF, ErrShort, ErrSource}
          /\ ret.err # NoError => handles[s] = ZeroPCMAudio
          /\ (Len(src[s]) >= HeaderSize /\ ret.err # ErrSource) => ret.err = NoError
          /\ ret.err = NoError =>
                /\ handles[s].made /\ ~handles[s].valid
                /\ handles[s].data = s
                /\ handles[s].headers = Decode(SubSeq(src[s], 1, HeaderSize))
                /\ pos[s] = HeaderSize

\* Source 1 ended after 43 bytes and gave no handle; source 2 gave one.
C13_Witness ==
    /\ ret = Return("NewPCMAudio", 2, 0, NoError)
    /\ Len(src[1]) = 43 /\ pos[1] = 43 /\ ~handles[1].made
    /\ handles[2].made /\ ~handles[2].valid /\ pos[2] = HeaderSize

\* ------------------------------------------- sources that are not files
\* Well-formed mono files of 8 and 16 bits with payloads of every length.
ReaderInputs ==
    { FilePair(<<Rate8k, Rate8k>>, <<b, b>>, <<mono, mono>>, FALSE, n1, n2) :
        <<b, n1, n2>> \in {8, 16} \X (0..MaxBytes) \X (0..MaxBytes) }

\* The sources may answer a Read in every way the io.Reader contract allows.
InitAnyReader == InitWith(ReaderInputs, [alias |-> FALSE, reader |-> "any"])

SpecAnyReader == InitAnyReader /\ [][Next]_vars

\* C14: Merge writes a zero frame for a side only when that side is
\* exhausted, whatever way its source answers Read: after a successful
\* Merge of payloads of N and M full frames, pair i of the output holds
\* left frame i if i < N and right frame i if i < M, and no pair below
\* min(N, M) is missing.
C14_FullFramesKept ==
    MergeOk =>
      \A n, m \in 0..MaxBytes :
        WholeFrames(n, m) =>
          /\ Len(Out) >= 2 * Min(n, m) * SampleSize
          /\ \A i \in 0..(Len(Out) \div (2 * SampleSize) - 1) :
               /\ i < n => Frame(Out, 2 * i, SampleSize)
                             = Frame(LeftData, i, SampleSize)
               /\ i < m => Frame(Out, 2 * i + 1, SampleSize)
                             = Frame(RightData, i, SampleSize)

\* The error Merge returns when the I/O operation e fails.
ErrorOf(e) ==
    CASE e = "header" -> "could not write headers"
      [] e = "seekL"  -> "could not seek left"
      [] e = "seekR"  -> "could not seek right"
      [] e = "readL"  -> "error reading left"
      [] e = "readR"  -> "error reading right"
      [] e = "writeL" -> "error writing left sample"
      [] e = "zeroL"  -> "error writing zero sample for left"
      [] e = "writeR" -> "error writing right sample"
      [] e = "zeroR"  -> "error writing zero sample for right"
      [] OTHER        -> "none"

\* C15: an I/O operation of Merge that fails is the last one Merge
\* performs, and Merge returns the error that names it; a Merge that ran
\* to its end without such a failure returns nil, whatever end-of-stream
\* its reads met, and a Merge that returned nil had no failure.
C15_FailureAborts ==
    (ret.op = "Merge" /\ trace # <<>>) =>
      /\ \A i \in 1..Len(trace) :
           trace[i] = "fail" =>
             /\ i = Len(trace) /\ i > 1
             /\ pc = "idle"
             /\ ret.err = ErrorOf(trace[i - 1])
      /\ (pc = "idle" /\ ~Failed) => ret.err = NoError
      /\ (pc = "idle" /\ ret.err = NoError) => ~Failed
      /\ pc # "idle" => ~Failed

\* A Merge aborted by a failing read of the right source in its second
\* pass, after one pair was written.
C15_Witness ==
    /\ ret.op = "Merge" /\ pc = "idle"
    /\ ret.err = "error reading right"
    /\ Len(trace) = 10
    /\ SubSeq(trace, 8, 10) = <<"readL", "readR", "fail">>
    /\ Len(sink) > HeaderSize

\* ------------------------------------------ output as a function of content
\* What is left of the byte sequence b from frame i on, for frames of n bytes.
Rest(b, i, n) == Max(Len(b) - i * n, 0)

\* Frame i of b if b holds all of it, the zero frame otherwise.
FullOrZero(b, i, n) == IF Rest(b, i, n) >= n THEN Frame(b, i, n) ELSE Zeros(n)

\* The pairs Merge writes from pair i on for payloads a and b read from
\* files: it stops before a pair for which both are at their end, and after
\* a pair for which one of them is.
RECURSIVE PairsFrom(_, _, _, _)
PairsFrom(a, b, n, i) ==
    IF n = 0 \/ (Rest(a, i, n) = 0 /\ Rest(b, i, n) = 0)
    THEN <<>>
    ELSE FullOrZero(a, i, n) \o FullOrZero(b, i, n)
           \o (IF Rest(a, i, n) = 0 \/ Rest(b, i, n) = 0
               THEN <<>>
               ELSE PairsFrom(a, b, n, i + 1))

\* C16: the output of a successful Merge of two distinct sources is a
\* function of the two headers and of what the sources hold from offset 44
\* on; where their cursors stood when Merge was called plays no part, so a
\* second Merge of the same handles writes the same bytes as the first.
C16_OutputFromContentOnly ==
    MergeOk =>
      /\ SubSeq(sink, 1, HeaderSize)
           = Encode(MergeHeaders(LeftH.headers, RightH.headers))
      /\ Out = PairsFrom(LeftData, RightData, SampleSize, 0)

\* A successful Merge of two 16-bit payloads of 4 bytes that was called
\* with both cursors at end-of-stream, as an earlier Merge leaves them.
C16_Witness ==
    /\ MergeOk
    /\ call.atEnd = <<TRUE, TRUE>>
    /\ SampleSize = 2
    /\ Len(LeftData) = 4 /\ Len(RightData) = 4
    /\ Len(Out) = 8

\* C17: no step of Merge, whether it ends in success, in a rejection or in
\* an I/O error, and no call of checkRequiredParams changes a header
\* field, the valid flag or the source of any handle, or the bytes of a
\* source; checkRequiredParams leaves the read positions alone as well.
C17_OperandsUnchanged ==
    [][ ret'.op \in {"Merge", "checkRequiredParams"} =>
          /\ handles' = handles
          /\ src' = src
          /\ ret'.op = "checkRequiredParams" => pos' = pos
      ]_vars

\* A Merge that moved both read positions to the end and was then aborted
\* by a failing write: both operands are still the validated handles that
\* NewPCMAudio decoded from the sources.
C17_Witness ==
    /\ ret.op = "Merge" /\ pc = "idle"
    /\ ret.err = "error writing right sample"
    /\ pos[LeftH.data] > HeaderSize /\ pos[RightH.data] > HeaderSize
    /\ LeftH.valid /\ RightH.valid
    /\ LeftH.headers = Decode(SubSeq(src[LeftH.data], 1, HeaderSize))
    /\ RightH.headers = Decode(SubSeq(src[RightH.data], 1, HeaderSize))

\* ------------------------------------------------- callers that assign
\* The header fields are exported and promoted to PCMAudio, so a caller can
\* assign them: p.AudioFormat = 2.  The field and value pairs tried here.
Assignable ==
    { <<"AudioFormat", audioFormat>>, <<"AudioFormat", 2>>,
      <<"ChunkID", chunkID>>, <<"ChunkID", Bad(chunkID)>>,
      <<"BitsPerSample", 8>>, <<"BitsPerSample", 16>> }

\* The caller's statement p.f = v on handle h.
Assign(h, f, v) ==
    /\ pc = "idle"
    /\ handles[h].made
    /\ handles' = [handles EXCEPT ![h].headers[f] = v]
    /\ ret' = Return("assign", h, 0, NoError)
    /\ sink' = <<>> /\ trace' = <<>> /\ call' = NoCall
    /\ UNCHANGED <<src, pos, pc, env>>

\* Well-formed 16-bit mono files with payloads of 0 or 2 bytes.
CallerInputs ==
    { FilePair(<<Rate8k, Rate8k>>, <<16, 16>>, <<mono, mono>>, FALSE, n1, n2) :
        <<n1, n2>> \in {0, 2} \X {0, 2} }

InitCaller == InitWith(CallerInputs, [alias |-> FALSE, reader |-> "file"])

NextCaller ==
    \/ Next
    \/ \E h \in Handles : \E a \in Assignable : Assign(h, a[1], a[2])

SpecCaller == InitCaller /\ [][NextCaller]_vars

\* C18: a handle whose valid flag is true has a header that passes the
\* five checks of Validate.  Stated for the states a call of Validate
\* returns in, where it says that a Validate that fails leaves its handle
\* not valid, even when an earlier Validate succeeded.
C18_ValidMeansWellFormed ==
    ret.op = "Validate" =>
      (handles[ret.left].valid
         => ValidateError(handles[ret.left].headers) = NoError)

\* ------------------------------------------------------------- termination
\* Merge is sequential code: once called, its next statement is executed.
MergeStep == MergeSeekLeft \/ MergeSeekRight \/ MergeLoop

\* Well-formed mono files of bit depths 4, 8, 12 and 16, frame sizes 0, 1,
\* 1 and 2, with payloads of every length.
TerminationInputs ==
    { FilePair(<<Rate8k, Rate8k>>, <<b, b>>, <<mono, mono>>, FALSE, n1, n2) :
        <<b, n1, n2>> \in {4, 8, 12, 16} \X (0..MaxBytes) \X (0..MaxBytes) }

InitFair == InitWith(TerminationInputs, [alias |-> FALSE, reader |-> "any"])

SpecFair == InitFair /\ [][Next]_vars /\ WF_vars(MergeStep)

\* C19: every Merge that was called returns, for every frame size,
\* including 0 (bit depths below 8) and bit depths that are no multiple of
\* 8, and however the sources answer Read; and every pass of the loop that does not leave it moves the read
\* position of at least one source forward.
C19_MergeTerminates ==
    /\ [][ (pc = "loop" /\ pc' = "loop") =>
             \E s \in Sources :
               /\ pos'[s] > pos[s]
               /\ \A t \in Sources : pos'[t] >= pos[t] ]_vars
    /\ (pc # "idle") ~> (pc = "idle")

\* A Merge of two 4-bit files with payloads, frame size 0, that returned.
C19_Witness ==
    /\ MergeOk
    /\ LeftH.headers.BitsPerSample = 4
    /\ Len(LeftData) > 0 /\ Len(RightData) > 0
    /\ trace = <<"header", "seekL", "seekR", "readL", "readR">>

\* --------------------------------------------- one handle on both sides
\* The caller may pass one handle as both operands: p.Merge(p, out).
InitAlias == InitWith(ReaderInputs, [alias |-> TRUE, reader |-> "file"])

SpecAlias == InitAlias /\ [][Next]_vars

\* C20: the two sides of a Merge are read independently: when one handle
\* is both operands and its payload is N full frames, a successful Merge
\* writes N pairs, pair i holding frame i of that payload in both slots.
C20_SameHandleBothSides ==
    (MergeOk /\ call.left = call.right) =>
      \A n \in 0..MaxBytes :
        WholeFrames(n, n) =>
          /\ Len(Out) = 2 * n * SampleSize
          /\ \A i \in 0..(n - 1) :
               /\ Frame(Out, 2 * i, SampleSize) = Frame(LeftData, i, SampleSize)
               /\ Frame(Out, 2 * i + 1, SampleSize) = Frame(LeftData, i, SampleSize)

====
